---- MODULE Spec2Model ----
(***************************************************************************)
(* A model of the array2d crate (src/src/lib.rs): the Array2D<T> struct,   *)
(* a Vec<T> in row major order plus its two dimensions, its constructors,  *)
(* its checked accessors and setters, and its row iteration.               *)
(*                                                                         *)
(* Rust indices are 0-based and TLA+ sequences 1-based: element i of a Vec *)
(* is v[i + 1] here.  Option, Result and a panic are tagged records.       *)
(***************************************************************************)
EXTENDS Integers, Sequences, FiniteSets

VARIABLES array, num_rows, num_columns, live, ctor_dims, last, pre

vars == <<array, num_rows, num_columns, live, ctor_dims, last, pre>>

(***************************************************************************)
(* Bounds of the model.                                                    *)
(***************************************************************************)
MaxRows == 2

MaxCols == 2

\* The element type T is generic; two distinct elements tell slots apart.
Values == {1, 2}

MaxLen == MaxRows * MaxCols

\* Arguments callers pass: every in-bounds index and the first ones past it.
RowArgs == 0..MaxRows

ColumnArgs == 0..MaxCols

IndexArgs == 0..MaxLen

SeqsUpTo(S, n) == UNION {[1..k -> S] : k \in 0..n}

\* Nested inputs of from_rows: rectangular and ragged ones.
NestedInputs == SeqsUpTo(SeqsUpTo(Values, MaxCols), MaxRows)

FlatInputs == SeqsUpTo(Values, MaxLen)

\* usize: the model's machine word has WordBits bits, and every dimension
\* up to MaxRows and MaxCols and every length up to MaxLen fits in it.
WordBits == 4

\* a * b on usize where the build has no overflow checks: it wraps.
usize_mul(a, b) == (a * b) % (2 ^ WordBits)

\* With overflow checks the same product panics when it does not fit.
overflows(a, b) == a * b >= 2 ^ WordBits

(***************************************************************************)
(* Option<T>, Result<T, Error>, the Error enum, and a panic.               *)
(***************************************************************************)
None == [tag |-> "None"]

Some(x) == [tag |-> "Some", val |-> x]

Ok(x) == [tag |-> "Ok", val |-> x]

Err(e) == [tag |-> "Err", err |-> e]

Panic == [tag |-> "Panic"]

Unit == <<>>

IndicesOutOfBounds(row, column) ==
    [kind |-> "IndicesOutOfBounds", row |-> row, column |-> column]

IndexOutOfBounds(index) == [kind |-> "IndexOutOfBounds", index |-> index]

DimensionMismatch == [kind |-> "DimensionMismatch"]

(***************************************************************************)
(* The struct.                                                             *)
(***************************************************************************)
Array2D(a, nr, nc) == [array |-> a, num_rows |-> nr, num_columns |-> nc]

self == Array2D(array, num_rows, num_columns)

RECURSIVE flatten(_)
flatten(nested) ==
    IF nested = <<>> THEN <<>> ELSE Head(nested) \o flatten(Tail(nested))

(***************************************************************************)
(* Constructors.                                                           *)
(***************************************************************************)
\* from_rows comparing every row but the last with the first.
from_rows_skip_last(elements) ==
    LET row_len == IF Len(elements) > 0 THEN Len(elements[1]) ELSE 0
    IN  IF ~(\A i \in 1..(Len(elements) - 1) : Len(elements[i]) = row_len)
        THEN Err(DimensionMismatch)
        ELSE Ok(Array2D(flatten(elements), Len(elements), row_len))

\* from_rows giving up the row count when the rows are empty.
from_rows_collapsing(elements) ==
    LET row_len == IF Len(elements) > 0 THEN Len(elements[1]) ELSE 0
    IN  IF ~(\A i \in 1..Len(elements) : Len(elements[i]) = row_len)
        THEN Err(DimensionMismatch)
        ELSE IF row_len = 0
             THEN Ok(Array2D(<<>>, 0, 0))
             ELSE Ok(Array2D(flatten(elements), Len(elements), row_len))

from_rows(elements) ==
    LET row_len == IF Len(elements) > 0 THEN Len(elements[1]) ELSE 0
    IN  IF ~(\A i \in 1..Len(elements) : Len(elements[i]) = row_len)
        THEN Err(DimensionMismatch)
        ELSE Ok(Array2D(flatten(elements), Len(elements), row_len))

\* from_row_major storing the two dimensions the other way round.
from_row_major_swapped(nr, nc, elements) ==
    LET total_len == usize_mul(nr, nc)
    IN  IF total_len # Len(elements)
        THEN Err(DimensionMismatch)
        ELSE Ok(Array2D(elements, nc, nr))

\* from_row_major rejecting short input only and cutting long input.
from_row_major_truncating(nr, nc, elements) ==
    LET total_len == usize_mul(nr, nc)
    IN  IF total_len > Len(elements)
        THEN Err(DimensionMismatch)
        ELSE Ok(Array2D(SubSeq(elements, 1, total_len), nr, nc))

from_row_major(nr, nc, elements) ==
    LET total_len == usize_mul(nr, nc)
    IN  IF total_len # Len(elements)
        THEN Err(DimensionMismatch)
        ELSE Ok(Array2D(elements, nr, nc))

(***************************************************************************)
(* Dimensions and the index mapping.                                       *)
(***************************************************************************)
row_len(g) == g.num_columns

column_len(g) == g.num_rows

\* get_index with the column never compared with num_columns: only the
\* offset is compared with the buffer length.
get_index_unchecked_column(g, row, column) ==
    IF row * row_len(g) + column < Len(g.array)
    THEN Some(row * row_len(g) + column)
    ELSE None

\* get_index with num_rows as the stride of a row.
get_index_row_stride(g, row, column) ==
    IF row < g.num_rows /\ column < g.num_columns
    THEN Some(row * column_len(g) + column)
    ELSE None

get_index(g, row, column) ==
    IF row < g.num_rows /\ column < g.num_columns
    THEN Some(row * row_len(g) + column)
    ELSE None

\* &self.array[index]: a panicking Vec index.
vec_index(v, index) == IF index < Len(v) THEN Some(v[index + 1]) ELSE Panic

\* self.array.get(index)
vec_get(v, index) == IF index < Len(v) THEN Some(v[index + 1]) ELSE None

(***************************************************************************)
(* Read accessors.                                                         *)
(***************************************************************************)
get(g, row, column) ==
    LET index == get_index(g, row, column)
    IN  IF index.tag = "Some" THEN vec_index(g.array, index.val) ELSE None

\* get_row_major reading the buffer with the column major split.
get_row_major_by_columns(g, index) ==
    IF g.num_rows = 0 THEN None
    ELSE get(g, index % g.num_rows, index \div g.num_rows)

get_row_major(g, index) == vec_get(g.array, index)

\* get_column_major splitting the index by num_columns, the row major split.
get_column_major_by_columns(g, index) ==
    IF g.num_columns = 0
    THEN Panic
    ELSE LET column == index \div g.num_columns
             row == index % g.num_columns
         IN  get(g, row, column)

\* index / self.num_rows and index % self.num_rows panic on a zero divisor.
get_column_major(g, index) ==
    IF g.num_rows = 0
    THEN Panic
    ELSE LET column == index \div g.num_rows
             row == index % g.num_rows
         IN  get(g, row, column)

(***************************************************************************)
(* Mutable accessors.  A &mut T into the buffer is the offset of its slot. *)
(***************************************************************************)
get_mut(g, row, column) ==
    LET index == get_index(g, row, column)
    IN  IF index.tag = "Some"
        THEN (IF index.val < Len(g.array) THEN Some(index.val) ELSE Panic)
        ELSE None

\* get_mut_row_major splitting the index as get_mut_column_major does.
get_mut_row_major_by_rows(g, index) ==
    IF g.num_rows = 0
    THEN None
    ELSE get_mut(g, index % g.num_rows, index \div g.num_rows)

get_mut_row_major(g, index) ==
    IF index < Len(g.array) THEN Some(index) ELSE None

\* get_mut_column_major splitting the index by num_columns.
get_mut_column_major_by_columns(g, index) ==
    IF g.num_columns = 0
    THEN Panic
    ELSE LET column == index \div g.num_columns
             row == index % g.num_columns
         IN  get_mut(g, row, column)

get_mut_column_major(g, index) ==
    IF g.num_rows = 0
    THEN Panic
    ELSE LET column == index \div g.num_rows
             row == index % g.num_rows
         IN  get_mut(g, row, column)

\* Vec::insert at the slot in place of an assignment to it.
store_insert(a, location, element) ==
    SubSeq(a, 1, location) \o <<element>> \o SubSeq(a, location + 1, Len(a))

\* *location = element
store(a, location, element) == [a EXCEPT ![location + 1] = element]

\* location.map(|location| *location = element): the buffer afterwards.
write_through(g, location, element) ==
    IF location.tag = "Some" THEN store(g.array, location.val, element)
    ELSE g.array

\* .map(..).ok_or(error), with a panic of the accessor passed on.
ok_or(location, error) ==
    IF location.tag = "Some" THEN Ok(Unit)
    ELSE IF location.tag = "Panic" THEN Panic
    ELSE Err(error)

(***************************************************************************)
(* Setters: the result and the buffer afterwards.                          *)
(***************************************************************************)
\* set with row and column exchanged in the lookup.
set_transposed(g, row, column, element) ==
    LET location == get_mut(g, column, row)
    IN  [res |-> ok_or(location, IndicesOutOfBounds(row, column)),
         array |-> write_through(g, location, element)]

\* set with row and column exchanged in the error.
set_err_transposed(g, row, column, element) ==
    LET location == get_mut(g, row, column)
    IN  [res |-> ok_or(location, IndicesOutOfBounds(column, row)),
         array |-> write_through(g, location, element)]

set(g, row, column, element) ==
    LET location == get_mut(g, row, column)
    IN  [res |-> ok_or(location, IndicesOutOfBounds(row, column)),
         array |-> write_through(g, location, element)]

set_row_major(g, index, element) ==
    LET location == get_mut_row_major(g, index)
    IN  [res |-> ok_or(location, IndexOutOfBounds(index)),
         array |-> write_through(g, location, element)]

set_column_major(g, index, element) ==
    LET location == get_mut_column_major(g, index)
    IN  [res |-> ok_or(location, IndexOutOfBounds(index)),
         array |-> write_through(g, location, element)]

\* array[(row, column)] = element
\* index_mut reporting an error value where get_mut is None.
index_mut_checked(g, row, column, element) ==
    LET location == get_mut(g, row, column)
    IN  IF location.tag = "Some"
        THEN [res |-> Ok(Unit), array |-> store(g.array, location.val, element)]
        ELSE [res |-> Err(IndicesOutOfBounds(row, column)), array |-> g.array]

index_mut(g, row, column, element) ==
    LET location == get_mut(g, row, column)
    IN  IF location.tag = "Some"
        THEN [res |-> Ok(Unit), array |-> store(g.array, location.val, element)]
        ELSE [res |-> Panic, array |-> g.array]

(***************************************************************************)
(* Row iteration.  An iterator is the sequence it yields when run to its   *)
(* end; rows_iter and as_rows pull every row.                              *)
(***************************************************************************)
row_iter(g, row_index) ==
    LET start == get_index(g, row_index, 0)
    IN  IF start.tag = "None"
        THEN Err(IndicesOutOfBounds(row_index, 0))
        ELSE LET end == start.val + row_len(g)
             IN  IF end <= Len(g.array)
                 THEN Ok(SubSeq(g.array, start.val + 1, end))
                 ELSE Panic

\* .expect("rows_iter should never fail") on each row_iter(row_index)
rows_iter(g) ==
    IF \E r \in 0..(g.num_rows - 1) : row_iter(g, r).tag # "Ok"
    THEN Panic
    ELSE Ok([r \in 1..g.num_rows |-> row_iter(g, r - 1).val])

as_rows(g) == rows_iter(g)

(***************************************************************************)
(* The state after a constructor call: the grid it returned, or none.      *)
(***************************************************************************)
Constructed(op, args, res) ==
    /\ live = (res.tag = "Ok")
    /\ array = IF res.tag = "Ok" THEN res.val.array ELSE <<>>
    /\ num_rows = IF res.tag = "Ok" THEN res.val.num_rows ELSE 0
    /\ num_columns = IF res.tag = "Ok" THEN res.val.num_columns ELSE 0
    /\ ctor_dims = <<num_rows, num_columns>>
    /\ pre = <<>>
    /\ last = [op |-> op, args |-> args,
               res |-> IF res.tag = "Ok" THEN Ok(Unit) ELSE res]

Init ==
    \/ \E elements \in NestedInputs :
          Constructed("from_rows", <<elements>>, from_rows(elements))
    \/ \E nr \in RowArgs, nc \in ColumnArgs, elements \in FlatInputs :
          Constructed("from_row_major", <<nr, nc, elements>>,
                      from_row_major(nr, nc, elements))

(***************************************************************************)
(* One action per call on the grid.  pre is the buffer before the call.    *)
(***************************************************************************)
Read(op, args, res) ==
    /\ live
    /\ last' = [op |-> op, args |-> args, res |-> res]
    /\ pre' = array
    /\ UNCHANGED <<array, num_rows, num_columns, live, ctor_dims>>

Write(op, args, out) ==
    /\ live
    /\ array' = out.array
    /\ last' = [op |-> op, args |-> args, res |-> out.res]
    /\ pre' = array
    /\ UNCHANGED <<num_rows, num_columns, live, ctor_dims>>

Get(row, column) == Read("get", <<row, column>>, get(self, row, column))

GetRowMajor(index) ==
    Read("get_row_major", <<index>>, get_row_major(self, index))

GetColumnMajor(index) ==
    Read("get_column_major", <<index>>, get_column_major(self, index))

\* array.get_mut(row, column).map(|x| *x = element)
GetMut(row, column, element) ==
    LET location == get_mut(self, row, column)
    IN  Write("get_mut", <<row, column, element>>,
              [res |-> location,
               array |-> write_through(self, location, element)])

GetMutRowMajor(index, element) ==
    LET location == get_mut_row_major(self, index)
    IN  Write("get_mut_row_major", <<index, element>>,
              [res |-> location,
               array |-> write_through(self, location, element)])

GetMutColumnMajor(index, element) ==
    LET location == get_mut_column_major(self, index)
    IN  Write("get_mut_column_major", <<index, element>>,
              [res |-> location,
               array |-> write_through(self, location, element)])

Set(row, column, element) ==
    Write("set", <<row, column, element>>, set(self, row, column, element))

SetRowMajor(index, element) ==
    Write("set_row_major", <<index, element>>,
          set_row_major(self, index, element))

SetColumnMajor(index, element) ==
    Write("set_column_major", <<index, element>>,
          set_column_major(self, index, element))

IndexMut(row, column, element) ==
    Write("index_mut", <<row, column, element>>,
          index_mut(self, row, column, element))

RowIter(row_index) ==
    Read("row_iter", <<row_index>>, row_iter(self, row_index))

RowsIter == Read("rows_iter", <<>>, rows_iter(self))

AsRows == Read("as_rows", <<>>, as_rows(self))

Next ==
    \/ \E row \in RowArgs, column \in ColumnArgs : Get(row, column)
    \/ \E index \in IndexArgs : GetRowMajor(index)
    \/ \E index \in IndexArgs : GetColumnMajor(index)
    \/ \E row \in RowArgs, column \in ColumnArgs, element \in Values :
          GetMut(row, column, element)
    \/ \E index \in IndexArgs, element \in Values :
          GetMutRowMajor(index, element)
    \/ \E index \in IndexArgs, element \in Values :
          GetMutColumnMajor(index, element)
    \/ \E row \in RowArgs, column \in ColumnArgs, element \in Values :
          Set(row, column, element)
    \/ \E index \in IndexArgs, element \in Values :
          SetRowMajor(index, element)
    \/ \E index \in IndexArgs, element \in Values :
          SetColumnMajor(index, element)
    \/ \E row \in RowArgs, column \in ColumnArgs, element \in Values :
          IndexMut(row, column, element)
    \/ \E row_index \in RowArgs : RowIter(row_index)
    \/ RowsIter
    \/ AsRows

Spec == Init /\ [][Next]_vars

(***************************************************************************)
(* Index sequences, in the order the nested ranges yield them.             *)
(***************************************************************************)
indices_row_major(nr, nc) ==
    flatten([row \in 1..nr |-> [column \in 1..nc |-> <<row - 1, column - 1>>]])

\* indices_column_major with the row range as the outer range.
indices_column_major_rows_outer(nr, nc) ==
    flatten([row \in 1..nr |-> [column \in 1..nc |-> <<row - 1, column - 1>>]])

indices_column_major(nr, nc) ==
    flatten([column \in 1..nc |-> [row \in 1..nr |-> <<row - 1, column - 1>>]])

(***************************************************************************)
(* The other constructors.                                                 *)
(***************************************************************************)
NotEnoughElements == [kind |-> "NotEnoughElements"]

\* from_columns laying the columns out as from_rows lays out rows.
from_columns_as_rows(elements) == from_rows(elements)

\* elements[column][row] is a panicking index into the nested input.
from_columns(elements) ==
    LET column_length == IF Len(elements) > 0 THEN Len(elements[1]) ELSE 0
    IN  IF ~(\A i \in 1..Len(elements) : Len(elements[i]) = column_length)
        THEN Err(DimensionMismatch)
        ELSE LET nr == column_length
                 nc == Len(elements)
                 indices == indices_row_major(nr, nc)
             IN  IF \E k \in 1..Len(indices) :
                        \/ indices[k][2] >= Len(elements)
                        \/ indices[k][1] >= Len(elements[indices[k][2] + 1])
                 THEN Panic
                 ELSE Ok(Array2D(
                          [k \in 1..Len(indices) |->
                              elements[indices[k][2] + 1][indices[k][1] + 1]],
                          nr, nc))

\* elements[column * num_rows + row] is a panicking index into the input.
\* from_column_major keeping the input order as the buffer.
from_column_major_no_relayout(nr, nc, elements) ==
    from_row_major(nr, nc, elements)

from_column_major(nr, nc, elements) ==
    LET total_len == usize_mul(nr, nc)
    IN  IF total_len # Len(elements)
        THEN Err(DimensionMismatch)
        ELSE LET indices == indices_row_major(nr, nc)
             IN  IF \E k \in 1..Len(indices) :
                        indices[k][2] * nr + indices[k][1] >= Len(elements)
                 THEN Panic
                 ELSE Ok(Array2D(
                          [k \in 1..Len(indices) |->
                              elements[indices[k][2] * nr + indices[k][1] + 1]],
                          nr, nc))

\* filled_with sizing the buffer by num_rows alone.
filled_with_by_rows(nr, nc, element) ==
    Ok(Array2D([k \in 1..(nr * nr) |-> element], nr, nc))

\* vec![element; total_len]
filled_with(nr, nc, element) ==
    LET total_len == usize_mul(nr, nc)
    IN  Ok(Array2D([k \in 1..total_len |-> element], nr, nc))

num_elements(g) == usize_mul(g.num_rows, g.num_columns)

\* A generator is an FnMut() -> T: its call number k (from 0) returns
\* outs[k % Len(outs)], so every pattern of results up to MaxLen occurs.
Generators == {outs \in FlatInputs : Len(outs) >= 1}

generator_call(outs, k) == outs[(k % Len(outs)) + 1]

\* (0..total_len).map(|_| generator()).collect(): the Vec and the calls made.
generate(outs, total_len) ==
    [vec |-> [k \in 1..total_len |-> generator_call(outs, k - 1)],
     count |-> total_len]

filled_by_row_major(nr, nc, generator) ==
    LET total_len == usize_mul(nr, nc)
        made == generate(generator, total_len)
    IN  [res |-> Ok(Array2D(made.vec, nr, nc)), count |-> made.count]

\* filled_by_column_major keeping the generated order as the buffer.
filled_by_column_major_row_order(nr, nc, generator) ==
    filled_by_row_major(nr, nc, generator)

\* .expect("Filled by should never fail")
filled_by_column_major(nr, nc, generator) ==
    LET total_len == usize_mul(nr, nc)
        made == generate(generator, total_len)
        built == from_column_major(nr, nc, made.vec)
    IN  [res |-> IF built.tag = "Ok" THEN built ELSE Panic,
         count |-> made.count]

\* An Iterator<Item = T>: it yields items and then ends, or, when endless,
\* goes round its items for ever.
Sources ==
    {[items |-> s, endless |-> FALSE] : s \in FlatInputs}
        \cup {[items |-> s, endless |-> TRUE] : s \in FlatInputs \ {<<>>}}

\* iterator.next() at position pos (from 0).
source_next(source, pos) ==
    IF pos < Len(source.items) THEN Some(source.items[pos + 1])
    ELSE IF source.endless
         THEN Some(source.items[(pos % Len(source.items)) + 1])
         ELSE None

\* iterator.take(n).collect(): Take::next asks the source only while n is
\* not 0, and collect stops at the first None.  count is the number of
\* calls of the source's next.
RECURSIVE take_collect(_, _, _, _)
take_collect(source, n, vec, count) ==
    IF n = 0
    THEN [vec |-> vec, count |-> count]
    ELSE LET item == source_next(source, count)
         IN  IF item.tag = "None"
             THEN [vec |-> vec, count |-> count + 1]
             ELSE take_collect(source, n - 1, Append(vec, item.val),
                               count + 1)

\* from_iter_row_major taking one value more than it keeps.
from_iter_row_major_take_more(nr, nc, iterator) ==
    LET total_len == usize_mul(nr, nc)
        taken == take_collect(iterator, total_len + 1, <<>>, 0)
    IN  [res |-> IF Len(taken.vec) < total_len
                 THEN Err(NotEnoughElements)
                 ELSE Ok(Array2D(SubSeq(taken.vec, 1, total_len), nr, nc)),
         count |-> taken.count]

from_iter_row_major(nr, nc, iterator) ==
    LET total_len == usize_mul(nr, nc)
        taken == take_collect(iterator, total_len, <<>>, 0)
    IN  [res |-> IF Len(taken.vec) # total_len
                 THEN Err(NotEnoughElements)
                 ELSE Ok(Array2D(taken.vec, nr, nc)),
         count |-> taken.count]

\* from_iter_column_major passing on the error of from_column_major.
from_iter_column_major_no_map_err(nr, nc, iterator) ==
    LET total_len == usize_mul(nr, nc)
        taken == take_collect(iterator, total_len, <<>>, 0)
    IN  [res |-> from_column_major(nr, nc, taken.vec),
         count |-> taken.count]

\* .map_err(|_| Error::NotEnoughElements)
from_iter_column_major(nr, nc, iterator) ==
    LET total_len == usize_mul(nr, nc)
        taken == take_collect(iterator, total_len, <<>>, 0)
        built == from_column_major(nr, nc, taken.vec)
    IN  [res |-> IF built.tag = "Err" THEN Err(NotEnoughElements) ELSE built,
         count |-> taken.count]

(***************************************************************************)
(* Column iteration and the flat views.                                    *)
(***************************************************************************)
\* Index::index reading the coordinate the other way round.
index_transposed(g, row, column) ==
    LET element == get(g, column, row)
    IN  IF element.tag = "Some" THEN element ELSE Panic

\* &self[(row, column)]: Index::index panics where get is None.
index(g, row, column) ==
    LET element == get(g, row, column)
    IN  IF element.tag = "Some" THEN element ELSE Panic

\* column_iter letting column_index = num_columns through.
column_iter_inclusive(g, column_index) ==
    IF column_index > g.num_columns
    THEN Err(IndicesOutOfBounds(0, column_index))
    ELSE IF \E r \in 0..(column_len(g) - 1) :
                index(g, r, column_index).tag # "Some"
         THEN Panic
         ELSE Ok([r \in 1..column_len(g) |->
                     index(g, r - 1, column_index).val])

column_iter(g, column_index) ==
    IF column_index >= g.num_columns
    THEN Err(IndicesOutOfBounds(0, column_index))
    ELSE IF \E r \in 0..(column_len(g) - 1) :
                index(g, r, column_index).tag # "Some"
         THEN Panic
         ELSE Ok([r \in 1..column_len(g) |->
                     index(g, r - 1, column_index).val])

\* .expect("columns_iter should never fail") on each column_iter(column_index)
columns_iter(g) ==
    IF \E c \in 0..(g.num_columns - 1) : column_iter(g, c).tag # "Ok"
    THEN Panic
    ELSE Ok([c \in 1..g.num_columns |-> column_iter(g, c - 1).val])

as_columns(g) == columns_iter(g)

elements_row_major_iter(g) == Ok(g.array)

\* elements_column_major_iter walking indices_row_major.
elements_column_major_iter_row_order(g) ==
    LET indices == indices_row_major(g.num_rows, g.num_columns)
    IN  IF \E k \in 1..Len(indices) :
               index(g, indices[k][1], indices[k][2]).tag # "Some"
        THEN Panic
        ELSE Ok([k \in 1..Len(indices) |->
                    index(g, indices[k][1], indices[k][2]).val])

elements_column_major_iter(g) ==
    LET indices == indices_column_major(g.num_rows, g.num_columns)
    IN  IF \E k \in 1..Len(indices) :
               index(g, indices[k][1], indices[k][2]).tag # "Some"
        THEN Panic
        ELSE Ok([k \in 1..Len(indices) |->
                    index(g, indices[k][1], indices[k][2]).val])

\* self.indices_column_major().map(move |i| (i, &self[i]))
enumerate_column_major(g) ==
    LET indices == indices_column_major(g.num_rows, g.num_columns)
    IN  IF \E k \in 1..Len(indices) :
               index(g, indices[k][1], indices[k][2]).tag # "Some"
        THEN Panic
        ELSE Ok([k \in 1..Len(indices) |->
                    <<indices[k], index(g, indices[k][1], indices[k][2]).val>>])

as_row_major(g) == elements_row_major_iter(g)

as_column_major(g) == elements_column_major_iter(g)

(***************************************************************************)
(* The iterators pulled from the back (DoubleEndedIterator::next_back      *)
(* until None).  A range yields its upper end first, a slice iterator its  *)
(* last element first, and a flat_map takes the last outer value and       *)
(* walks its inner range from the back.                                    *)
(***************************************************************************)
\* (0..n).rev()
range_rev(n) == [k \in 1..n |-> n - k]

\* slice::Iter::next_back
slice_iter_rev(v) == [k \in 1..Len(v) |-> v[Len(v) - k + 1]]

indices_row_major_rev(nr, nc) ==
    flatten([i \in 1..nr |->
                [j \in 1..nc |-> <<range_rev(nr)[i], range_rev(nc)[j]>>]])

indices_column_major_rev(nr, nc) ==
    flatten([j \in 1..nc |->
                [i \in 1..nr |-> <<range_rev(nr)[i], range_rev(nc)[j]>>]])

elements_row_major_iter_rev(g) == Ok(slice_iter_rev(g.array))

elements_column_major_iter_rev(g) ==
    LET indices == indices_column_major_rev(g.num_rows, g.num_columns)
    IN  IF \E k \in 1..Len(indices) :
               index(g, indices[k][1], indices[k][2]).tag # "Some"
        THEN Panic
        ELSE Ok([k \in 1..Len(indices) |->
                    index(g, indices[k][1], indices[k][2]).val])

row_iter_rev(g, row_index) ==
    LET forward == row_iter(g, row_index)
    IN  IF forward.tag = "Ok" THEN Ok(slice_iter_rev(forward.val))
        ELSE forward

column_iter_rev(g, column_index) ==
    IF column_index >= g.num_columns
    THEN Err(IndicesOutOfBounds(0, column_index))
    ELSE LET rows == range_rev(column_len(g))
         IN  IF \E k \in 1..Len(rows) :
                    index(g, rows[k], column_index).tag # "Some"
             THEN Panic
             ELSE Ok([k \in 1..Len(rows) |->
                         index(g, rows[k], column_index).val])

\* The rows come from the back; each row is then walked forwards.
rows_iter_rev(g) ==
    LET rows == range_rev(g.num_rows)
    IN  IF \E k \in 1..Len(rows) : row_iter(g, rows[k]).tag # "Ok"
        THEN Panic
        ELSE Ok([k \in 1..Len(rows) |-> row_iter(g, rows[k]).val])

columns_iter_rev(g) ==
    LET columns == range_rev(g.num_columns)
    IN  IF \E k \in 1..Len(columns) : column_iter(g, columns[k]).tag # "Ok"
        THEN Panic
        ELSE Ok([k \in 1..Len(columns) |-> column_iter(g, columns[k]).val])

(***************************************************************************)
(* The constructors as calls: from a program that holds no grid yet, one   *)
(* constructor call, then reads of the grid it returned.                   *)
(***************************************************************************)
InitBuild ==
    /\ live = FALSE
    /\ array = <<>>
    /\ num_rows = 0
    /\ num_columns = 0
    /\ ctor_dims = <<0, 0>>
    /\ pre = <<>>
    /\ last = [op |-> "none", args |-> <<>>, res |-> None]

\* The call's result res and, for a constructor fed by a generator or an
\* iterator, the number of calls it made of it.
Build(op, args, res, count) ==
    /\ last.op = "none"
    /\ live' = (res.tag = "Ok")
    /\ array' = IF res.tag = "Ok" THEN res.val.array ELSE <<>>
    /\ num_rows' = IF res.tag = "Ok" THEN res.val.num_rows ELSE 0
    /\ num_columns' = IF res.tag = "Ok" THEN res.val.num_columns ELSE 0
    /\ ctor_dims' = <<num_rows', num_columns'>>
    /\ pre' = <<>>
    /\ last' = [op |-> op, args |-> args,
                res |-> IF res.tag = "Ok" THEN Ok(Unit) ELSE res,
                count |-> count]

FromRows(elements) ==
    Build("from_rows", <<elements>>, from_rows(elements), 0)

FromColumns(elements) ==
    Build("from_columns", <<elements>>, from_columns(elements), 0)

FromRowMajor(nr, nc, elements) ==
    Build("from_row_major", <<nr, nc, elements>>,
          from_row_major(nr, nc, elements), 0)

FromColumnMajor(nr, nc, elements) ==
    Build("from_column_major", <<nr, nc, elements>>,
          from_column_major(nr, nc, elements), 0)

FilledByRowMajor(nr, nc, generator) ==
    LET out == filled_by_row_major(nr, nc, generator)
    IN  Build("filled_by_row_major", <<nr, nc, generator>>,
              out.res, out.count)

FilledByColumnMajor(nr, nc, generator) ==
    LET out == filled_by_column_major(nr, nc, generator)
    IN  Build("filled_by_column_major", <<nr, nc, generator>>,
              out.res, out.count)

FromIterRowMajor(nr, nc, iterator) ==
    LET out == from_iter_row_major(nr, nc, iterator)
    IN  Build("from_iter_row_major", <<nr, nc, iterator>>,
              out.res, out.count)

FromIterColumnMajor(nr, nc, iterator) ==
    LET out == from_iter_column_major(nr, nc, iterator)
    IN  Build("from_iter_column_major", <<nr, nc, iterator>>,
              out.res, out.count)

FilledWith(nr, nc, element) ==
    Build("filled_with", <<nr, nc, element>>, filled_with(nr, nc, element),
          0)

ColumnIter(column_index) ==
    Read("column_iter", <<column_index>>, column_iter(self, column_index))

\* The methods pass the grid's own dimensions to the free functions.
IndicesRowMajor ==
    Read("indices_row_major", <<>>,
         Ok(indices_row_major(num_rows, num_columns)))

IndicesColumnMajor ==
    Read("indices_column_major", <<>>,
         Ok(indices_column_major(num_rows, num_columns)))

ElementsColumnMajorIter ==
    Read("elements_column_major_iter", <<>>, elements_column_major_iter(self))

EnumerateColumnMajor ==
    Read("enumerate_column_major", <<>>, enumerate_column_major(self))

ElementsRowMajorIterRev ==
    Read("elements_row_major_iter_rev", <<>>,
         elements_row_major_iter_rev(self))

ElementsColumnMajorIterRev ==
    Read("elements_column_major_iter_rev", <<>>,
         elements_column_major_iter_rev(self))

RowIterRev(row_index) ==
    Read("row_iter_rev", <<row_index>>, row_iter_rev(self, row_index))

ColumnIterRev(column_index) ==
    Read("column_iter_rev", <<column_index>>,
         column_iter_rev(self, column_index))

RowsIterRev == Read("rows_iter_rev", <<>>, rows_iter_rev(self))

ColumnsIterRev == Read("columns_iter_rev", <<>>, columns_iter_rev(self))

AsColumns == Read("as_columns", <<>>, as_columns(self))

AsRowMajor == Read("as_row_major", <<>>, as_row_major(self))

AsColumnMajor == Read("as_column_major", <<>>, as_column_major(self))

NextBuild ==
    \/ last.op = "none" /\ \E elements \in NestedInputs : FromRows(elements)
    \/ last.op = "none" /\ \E elements \in NestedInputs : FromColumns(elements)
    \/ last.op = "none" /\
       \E nr \in RowArgs, nc \in ColumnArgs, elements \in FlatInputs :
          FromRowMajor(nr, nc, elements)
    \/ last.op = "none" /\
       \E nr \in RowArgs, nc \in ColumnArgs, elements \in FlatInputs :
          FromColumnMajor(nr, nc, elements)
    \/ last.op = "none" /\
       \E nr \in RowArgs, nc \in ColumnArgs, generator \in Generators :
          FilledByRowMajor(nr, nc, generator)
    \/ last.op = "none" /\
       \E nr \in RowArgs, nc \in ColumnArgs, generator \in Generators :
          FilledByColumnMajor(nr, nc, generator)
    \/ last.op = "none" /\
       \E nr \in RowArgs, nc \in ColumnArgs, iterator \in Sources :
          FromIterRowMajor(nr, nc, iterator)
    \/ last.op = "none" /\
       \E nr \in RowArgs, nc \in ColumnArgs, iterator \in Sources :
          FromIterColumnMajor(nr, nc, iterator)
    \/ last.op = "none" /\
       \E nr \in RowArgs, nc \in ColumnArgs, element \in Values :
          FilledWith(nr, nc, element)
    \/ \E row_index \in RowArgs : RowIter(row_index)
    \/ \E column_index \in ColumnArgs : ColumnIter(column_index)
    \/ IndicesRowMajor
    \/ IndicesColumnMajor
    \/ ElementsColumnMajorIter
    \/ EnumerateColumnMajor
    \/ ElementsRowMajorIterRev
    \/ ElementsColumnMajorIterRev
    \/ \E row_index \in RowArgs : RowIterRev(row_index)
    \/ \E column_index \in ColumnArgs : ColumnIterRev(column_index)
    \/ RowsIterRev
    \/ ColumnsIterRev
    \/ \E row \in RowArgs, column \in ColumnArgs : Get(row, column)
    \/ AsRows
    \/ AsColumns
    \/ AsRowMajor
    \/ AsColumnMajor

SpecBuild == InitBuild /\ [][NextBuild]_vars

(***************************************************************************)
(* Direct indexing: array[(row, column)] read and written on a constructed *)
(* grid.                                                                   *)
(***************************************************************************)
Index(row, column) == Read("index", <<row, column>>, index(self, row, column))

NextIndex ==
    \/ \E row \in RowArgs, column \in ColumnArgs : Index(row, column)
    \/ \E row \in RowArgs, column \in ColumnArgs, element \in Values :
          IndexMut(row, column, element)

SpecIndex == Init /\ [][NextIndex]_vars

(***************************************************************************)
(* The constructors with explicit dimensions called with dimensions up to  *)
(* the largest usize.  The build decides what an overflowing num_rows *    *)
(* num_columns does: a panic with overflow checks, a wrapped product       *)
(* without.                                                                *)
(***************************************************************************)
WordArgs ==
    {0, 1, 2, 2 ^ (WordBits \div 2), 2 ^ (WordBits - WordBits \div 2),
     2 ^ WordBits - 1}

WordInputs == SeqsUpTo(Values, 2)

WordGenerators == {<<1>>, <<1, 2>>}

WordSources ==
    {[items |-> <<>>, endless |-> FALSE],
     [items |-> <<1, 2>>, endless |-> FALSE],
     [items |-> <<1, 2>>, endless |-> TRUE]}

WordBuild(op, args, res, count) ==
    \E overflow_checks \in BOOLEAN :
        IF overflow_checks /\ overflows(args[1], args[2])
        THEN Build(op, args, Panic, 0)
        ELSE Build(op, args, res, count)

WordFromRowMajor(nr, nc, elements) ==
    WordBuild("from_row_major", <<nr, nc, elements>>,
              from_row_major(nr, nc, elements), 0)

WordFromColumnMajor(nr, nc, elements) ==
    WordBuild("from_column_major", <<nr, nc, elements>>,
              from_column_major(nr, nc, elements), 0)

WordFilledWith(nr, nc, element) ==
    WordBuild("filled_with", <<nr, nc, element>>,
              filled_with(nr, nc, element), 0)

WordFilledByRowMajor(nr, nc, generator) ==
    LET out == filled_by_row_major(nr, nc, generator)
    IN  WordBuild("filled_by_row_major", <<nr, nc, generator>>,
                  out.res, out.count)

WordFilledByColumnMajor(nr, nc, generator) ==
    LET out == filled_by_column_major(nr, nc, generator)
    IN  WordBuild("filled_by_column_major", <<nr, nc, generator>>,
                  out.res, out.count)

WordFromIterRowMajor(nr, nc, iterator) ==
    LET out == from_iter_row_major(nr, nc, iterator)
    IN  WordBuild("from_iter_row_major", <<nr, nc, iterator>>,
                  out.res, out.count)

WordFromIterColumnMajor(nr, nc, iterator) ==
    LET out == from_iter_column_major(nr, nc, iterator)
    IN  WordBuild("from_iter_column_major", <<nr, nc, iterator>>,
                  out.res, out.count)

NextWord ==
    \/ last.op = "none" /\
       \E nr \in WordArgs, nc \in WordArgs, elements \in WordInputs :
          WordFromRowMajor(nr, nc, elements)
    \/ last.op = "none" /\
       \E nr \in WordArgs, nc \in WordArgs, elements \in WordInputs :
          WordFromColumnMajor(nr, nc, elements)
    \/ last.op = "none" /\
       \E nr \in WordArgs, nc \in WordArgs, element \in Values :
          WordFilledWith(nr, nc, element)
    \/ last.op = "none" /\
       \E nr \in WordArgs, nc \in WordArgs, generator \in WordGenerators :
          WordFilledByRowMajor(nr, nc, generator)
    \/ last.op = "none" /\
       \E nr \in WordArgs, nc \in WordArgs, generator \in WordGenerators :
          WordFilledByColumnMajor(nr, nc, generator)
    \/ last.op = "none" /\
       \E nr \in WordArgs, nc \in WordArgs, iterator \in WordSources :
          WordFromIterRowMajor(nr, nc, iterator)
    \/ last.op = "none" /\
       \E nr \in WordArgs, nc \in WordArgs, iterator \in WordSources :
          WordFromIterColumnMajor(nr, nc, iterator)
    \/ \E row \in 0..1, column \in 0..1 : Get(row, column)
    \/ \E row \in 0..1, column \in 0..1 : Index(row, column)

SpecWord == InitBuild /\ [][NextWord]_vars

(***************************************************************************)
(* Equality of two grids: one constructor call, then comparisons of the    *)
(* grid it returned with the grids filled_with returns.                    *)
(***************************************************************************)
\* An equality that looks at the buffers alone.
eq_buffers(g, h) == g.array = h.array

\* #[derive(PartialEq)] compares the fields array, num_rows, num_columns.
eq(g, h) ==
    /\ g.array = h.array
    /\ g.num_rows = h.num_rows
    /\ g.num_columns = h.num_columns

\* The right-hand operands: the grids filled_with returns.
Grids ==
    {filled_with(nr, nc, element).val :
        <<nr, nc, element>> \in RowArgs \X ColumnArgs \X Values}

Eq(other) == Read("eq", <<other>>, eq(self, other))

NextEq ==
    \/ last.op = "none" /\ \E elements \in NestedInputs : FromRows(elements)
    \/ last.op = "none" /\
       \E nr \in RowArgs, nc \in ColumnArgs, elements \in FlatInputs :
          FromRowMajor(nr, nc, elements)
    \/ \E other \in Grids : Eq(other)

SpecEq == InitBuild /\ [][NextEq]_vars

(***************************************************************************)
(* Vocabulary of the claims.                                               *)
(***************************************************************************)
\* The element of buffer a that the row major layout puts at (row, column).
At(a, row, column) == a[row * num_columns + column + 1]

Coordinates == (0..(num_rows - 1)) \X (0..(num_columns - 1))

InBounds(row, column) == row < num_rows /\ column < num_columns

\* The buffer differs from pre at coordinate (row, column) alone, now element.
OnlySlotChanged(row, column, element) ==
    /\ Len(array) = Len(pre)
    /\ \A rc \in Coordinates :
          At(array, rc[1], rc[2]) =
              IF rc = <<row, column>> THEN element ELSE At(pre, rc[1], rc[2])

Rectangular(nested) ==
    \A i \in 1..Len(nested), j \in 1..Len(nested) :
        Len(nested[i]) = Len(nested[j])

WriteOps == {"set", "set_row_major", "set_column_major", "get_mut",
             "get_mut_row_major", "get_mut_column_major", "index_mut"}

\* C1: in every state reachable from a successfully constructed grid by any
\* sequence of set, set_row_major, set_column_major, writes through get_mut,
\* get_mut_row_major, get_mut_column_major and indexed assignment, failing
\* or not, the buffer length is num_rows * num_columns and both dimensions
\* have the values they had at construction.
C1_DimensionInvariant ==
    live => /\ Len(array) = num_rows * num_columns
            /\ <<num_rows, num_columns>> = ctor_dims

\* A write call has changed a grid of the largest shape.
C1_Witness ==
    /\ live
    /\ last.op \in WriteOps
    /\ array # pre
    /\ num_rows = MaxRows
    /\ num_columns = MaxCols

\* C2: get(row, column) is present exactly when row < num_rows and
\* column < num_columns, and is then the element at row major offset
\* row * num_columns + column; otherwise it is absent, never a fault, also
\* for get(r, num_columns) where r * num_columns + num_columns is an offset
\* of the buffer.
C2_GetPresentExactlyInBounds ==
    live /\ last.op = "get" =>
        LET row == last.args[1]
            column == last.args[2]
        IN  IF row < num_rows /\ column < num_columns
            THEN last.res = Some(array[row * num_columns + column + 1])
            ELSE last.res = None

\* get(r, num_columns) was called where the flat offset is inside the buffer.
C2_Witness ==
    /\ live
    /\ last.op = "get"
    /\ last.args[2] = num_columns
    /\ last.args[1] * num_columns + last.args[2] < Len(array)
    /\ last.res = None

\* C3: on a grid with num_rows = 0, for every index i, get_column_major(i)
\* and get_mut_column_major(i) are absent and set_column_major(i, v) is
\* Err(IndexOutOfBounds(i)); none of them faults and the grid is unchanged.
C3_ZeroRowsColumnMajorOutOfBounds ==
    live /\ num_rows = 0 =>
        /\ last.op = "get_column_major" => last.res = None
        /\ last.op = "get_mut_column_major" => last.res = None
        /\ last.op = "set_column_major" =>
               last.res = Err(IndexOutOfBounds(last.args[1]))
        /\ last.op \in {"get_column_major", "get_mut_column_major",
                        "set_column_major"} => array = pre

\* C4: for rectangular nested rows, zero rows and N >= 1 empty rows included,
\* from_rows(rows) succeeds and from_rows(rows).as_rows() = rows.
C4_FromRowsAsRowsRoundTrip ==
    last.op = "from_rows" /\ Rectangular(last.args[1]) =>
        /\ live
        /\ as_rows(self) = Ok(last.args[1])

\* C5: on a grid with num_rows >= 1 and num_columns = 0, row_iter(r) for
\* every r < num_rows succeeds with an empty sequence, and rows_iter()
\* yields num_rows empty rows; its expect never fires.
C5_ZeroColumnsIterable ==
    live /\ num_rows >= 1 /\ num_columns = 0 =>
        /\ last.op = "row_iter" /\ last.args[1] < num_rows =>
               last.res = Ok(<<>>)
        /\ last.op = "rows_iter" =>
               last.res = Ok([r \in 1..num_rows |-> <<>>])

\* C6: with num_rows > 0, get_column_major(i) for i < num_rows * num_columns
\* is present and equals get(i % num_rows, i / num_rows); for
\* i >= num_rows * num_columns it is absent.
C6_GetColumnMajorMapping ==
    live /\ num_rows > 0 /\ last.op = "get_column_major" =>
        LET i == last.args[1]
        IN  IF i < num_rows * num_columns
            THEN /\ last.res = Some(At(array, i % num_rows, i \div num_rows))
                 /\ last.res = get(self, i % num_rows, i \div num_rows)
            ELSE last.res = None

\* get_column_major was called with an index whose column major and row
\* major positions differ.
C6_Witness ==
    /\ live
    /\ last.op = "get_column_major"
    /\ last.res.tag = "Some"
    /\ (last.args[1] % num_rows) * num_columns + (last.args[1] \div num_rows)
           # last.args[1]
    /\ last.res # get_row_major(self, last.args[1])

\* C7: for valid (row, column), get_row_major(row * num_columns + column)
\* = get(row, column); get_row_major(i) is present exactly when
\* i < num_rows * num_columns, and every offset in range comes from exactly
\* one coordinate pair.
C7_GetRowMajorMapping ==
    /\ live /\ last.op = "get_row_major" =>
           LET i == last.args[1]
           IN  /\ (last.res.tag = "Some") <=> (i < num_rows * num_columns)
               /\ last.res.tag \in {"Some", "None"}
               /\ i < num_rows * num_columns =>
                      /\ Cardinality({rc \in Coordinates :
                             get_index(self, rc[1], rc[2]) = Some(i)}) = 1
                      /\ \A rc \in Coordinates :
                             get_index(self, rc[1], rc[2]) = Some(i) =>
                                 last.res = get(self, rc[1], rc[2])
    /\ live /\ last.op = "get" /\ InBounds(last.args[1], last.args[2]) =>
           last.res =
               get_row_major(self, last.args[1] * num_columns + last.args[2])

\* get_row_major was called on the last slot of a grid taller than wide.
C7_Witness ==
    /\ live
    /\ last.op = "get_row_major"
    /\ num_rows > num_columns
    /\ last.args[1] = num_rows * num_columns - 1
    /\ last.res.tag = "Some"

\* C8: set(row, column, v) in bounds returns Ok, afterwards
\* get(row, column) = v, and every other element and both dimensions are
\* unchanged.
C8_SetInBounds ==
    live /\ last.op = "set" /\ InBounds(last.args[1], last.args[2]) =>
        /\ last.res = Ok(Unit)
        /\ get(self, last.args[1], last.args[2]) = Some(last.args[3])
        /\ OnlySlotChanged(last.args[1], last.args[2], last.args[3])
        /\ <<num_rows, num_columns>> = ctor_dims

\* set overwrote a slot off the diagonal with a new value.
C8_Witness ==
    /\ live
    /\ last.op = "set"
    /\ last.res.tag = "Ok"
    /\ last.args[1] # last.args[2]
    /\ array # pre

\* C9: set(row, column, v) with row >= num_rows or column >= num_columns
\* returns Err(IndicesOutOfBounds(row, column)) with the supplied indices,
\* and the elements and both dimensions are as before the call.
C9_SetOutOfBounds ==
    live /\ last.op = "set" /\ ~InBounds(last.args[1], last.args[2]) =>
        /\ last.res = Err(IndicesOutOfBounds(last.args[1], last.args[2]))
        /\ array = pre
        /\ <<num_rows, num_columns>> = ctor_dims

\* set failed on a non-empty grid with only the column out of bounds.
C9_Witness ==
    /\ live
    /\ last.op = "set"
    /\ last.res.tag = "Err"
    /\ last.args[1] < num_rows
    /\ last.args[2] >= num_columns
    /\ last.args[1] # last.args[2]
    /\ Len(array) > 0

\* C10: set_row_major(i, v) with i < num_rows * num_columns returns Ok and
\* changes exactly the element at (i / num_columns, i % num_columns) to v;
\* with i >= num_rows * num_columns it returns Err(IndexOutOfBounds(i)) and
\* leaves the grid unchanged.
C10_SetRowMajor ==
    live /\ last.op = "set_row_major" =>
        LET i == last.args[1]
        IN  IF i < num_rows * num_columns
            THEN /\ last.res = Ok(Unit)
                 /\ OnlySlotChanged(i \div num_columns, i % num_columns,
                                    last.args[2])
            ELSE /\ last.res = Err(IndexOutOfBounds(i))
                 /\ array = pre

\* set_row_major changed a slot below the first row.
C10_Witness ==
    /\ live
    /\ last.op = "set_row_major"
    /\ last.res.tag = "Ok"
    /\ last.args[1] >= num_columns
    /\ num_columns > 1
    /\ array # pre

\* C11: with num_rows > 0, set_column_major(i, v) with
\* i < num_rows * num_columns returns Ok and changes exactly the element at
\* (i % num_rows, i / num_rows) to v; with i >= num_rows * num_columns it
\* returns Err(IndexOutOfBounds(i)) and leaves the grid unchanged.
C11_SetColumnMajor ==
    live /\ num_rows > 0 /\ last.op = "set_column_major" =>
        LET i == last.args[1]
        IN  IF i < num_rows * num_columns
            THEN /\ last.res = Ok(Unit)
                 /\ OnlySlotChanged(i % num_rows, i \div num_rows,
                                    last.args[2])
            ELSE /\ last.res = Err(IndexOutOfBounds(i))
                 /\ array = pre

\* set_column_major changed a slot whose row major offset is not its index.
C11_Witness ==
    /\ live
    /\ last.op = "set_column_major"
    /\ last.res.tag = "Ok"
    /\ (last.args[1] % num_rows) * num_columns + (last.args[1] \div num_rows)
           # last.args[1]
    /\ array # pre

\* C12: for nested columns of equal length, zero columns and N >= 1 empty
\* columns included, from_columns(columns) succeeds and
\* from_columns(columns).as_columns() = columns.
C12_FromColumnsAsColumnsRoundTrip ==
    [][/\ last.op = "none" /\ last'.op = "from_columns"
              /\ Rectangular(last'.args[1]) => live'
       /\ last.op = "from_columns" /\ Rectangular(last.args[1])
              /\ last'.op = "as_columns" => last'.res = Ok(last.args[1])]_vars

\* as_columns returned two empty columns: the grid is 0 x 2.
C12_Witness ==
    /\ live
    /\ last.op = "as_columns"
    /\ last.res = Ok(<<<<>>, <<>>>>)
    /\ num_rows = 0

\* C13: for all dimensions, zero included, and every flat sequence of
\* length num_rows * num_columns, from_row_major(..).as_row_major() = flat
\* and from_column_major(..).as_column_major() = flat.
C13_FlatRoundTrip ==
    [][/\ last.op = "none"
              /\ last'.op \in {"from_row_major", "from_column_major"}
              /\ Len(last'.args[3]) = last'.args[1] * last'.args[2] => live'
       /\ last.op = "from_row_major" /\ live /\ last'.op = "as_row_major" =>
              last'.res = Ok(last.args[3])
       /\ last.op = "from_column_major" /\ live
              /\ last'.op = "as_column_major" =>
              last'.res = Ok(last.args[3])]_vars

\* as_column_major returned a sequence that is not the row major buffer.
C13_Witness ==
    /\ live
    /\ last.op = "as_column_major"
    /\ last.res.tag = "Ok"
    /\ last.res.val # array

\* The columns of rectangular nested rows, and their concatenation.
Transpose(nested) ==
    LET c == IF Len(nested) > 0 THEN Len(nested[1]) ELSE 0
    IN  [j \in 1..c |-> [i \in 1..Len(nested) |-> nested[i][j]]]

ColumnMajorOf(nested) == flatten(Transpose(nested))

\* The four constructors agree on the rectangular content nested.
FourWaysEqual(nested) ==
    LET r == Len(nested)
        c == IF r > 0 THEN Len(nested[1]) ELSE 0
        g == from_rows(nested)
    IN  /\ g.tag = "Ok"
        /\ from_row_major(r, c, flatten(nested)) = g
        /\ from_columns(Transpose(nested)) = g
        /\ from_column_major(r, c, ColumnMajorOf(nested)) = g

\* C14 as stated: for every rectangular content R, from_rows(R),
\* from_row_major of its row major flattening, from_columns of its
\* transpose and from_column_major of its column major flattening are all
\* structurally equal.
C14_FourConstructorsEqual ==
    last.op = "from_rows" /\ Rectangular(last.args[1]) =>
        FourWaysEqual(last.args[1])

\* C14 amended: the four constructors build structurally equal grids for
\* every rectangular content that has at least one column or no row.
C14_FourConstructorsEqualWithColumns ==
    /\ last.op = "from_rows" /\ Rectangular(last.args[1])
           /\ (Len(last.args[1]) = 0 \/ Len(last.args[1][1]) >= 1) =>
           /\ FourWaysEqual(last.args[1])
           /\ from_rows(last.args[1]) = Ok(self)
    /\ last.op = "from_rows" /\ Rectangular(last.args[1])
           /\ Len(last.args[1]) >= 1 /\ Len(last.args[1][1]) = 0 =>
           /\ from_rows(last.args[1]) = Ok(self)
           /\ from_columns(Transpose(last.args[1])) = Ok(Array2D(<<>>, 0, 0))
           /\ num_rows = Len(last.args[1])

\* from_rows built a 2 x 2 grid whose transpose is another grid.
C14_Witness ==
    /\ live
    /\ last.op = "from_rows"
    /\ num_rows = 2
    /\ num_columns = 2
    /\ ColumnMajorOf(last.args[1]) # array

\* C15: after a successful from_column_major(num_rows, num_columns, flat),
\* get(row, column) is flat[column * num_rows + row] for every coordinate
\* in bounds.
C15_FromColumnMajorPlacement ==
    /\ [](last.op = "from_column_major" /\ live =>
            \A rc \in Coordinates :
                get(self, rc[1], rc[2]) =
                    Some(last.args[3][rc[2] * num_rows + rc[1] + 1]))
    /\ [][last.op = "from_column_major" /\ live /\ last'.op = "get"
              /\ last'.args[1] < num_rows /\ last'.args[2] < num_columns =>
              last'.res =
                  Some(last.args[3][last'.args[2] * num_rows
                                    + last'.args[1] + 1])]_vars

\* from_column_major built a 2 x 2 grid from input in another order.
C15_Witness ==
    /\ live
    /\ last.op = "from_column_major"
    /\ num_rows = 2
    /\ num_columns = 2
    /\ last.args[3] # array

\* C16: from_rows and from_columns return Err(DimensionMismatch) exactly
\* when two of the supplied rows, respectively columns, differ in length;
\* on every other input, empty input included, they succeed.
C16_NestedDimensionMismatch ==
    last.op \in {"from_rows", "from_columns"} =>
        IF Rectangular(last.args[1])
        THEN live /\ last.res = Ok(Unit)
        ELSE ~live /\ last.res = Err(DimensionMismatch)

\* from_columns rejected columns of two lengths.
C16_Witness ==
    /\ last.op = "from_columns"
    /\ last.res = Err(DimensionMismatch)
    /\ Len(last.args[1]) = 2
    /\ Len(last.args[1][1]) # Len(last.args[1][2])

\* C17: from_row_major and from_column_major return Err(DimensionMismatch)
\* exactly when the flat length differs from num_rows * num_columns;
\* otherwise they succeed with exactly the dimensions given, and the input
\* is never truncated or padded.
C17_FlatDimensionMismatch ==
    last.op \in {"from_row_major", "from_column_major"} =>
        LET nr == last.args[1]
            nc == last.args[2]
            flat == last.args[3]
        IN  IF Len(flat) # nr * nc
            THEN ~live /\ last.res = Err(DimensionMismatch)
            ELSE /\ live
                 /\ last.res = Ok(Unit)
                 /\ num_rows = nr
                 /\ num_columns = nc
                 /\ Len(array) = Len(flat)
                 /\ last.op = "from_row_major" => array = flat
                 /\ last.op = "from_column_major" =>
                        \A rc \in Coordinates :
                            At(array, rc[1], rc[2]) =
                                flat[rc[2] * nr + rc[1] + 1]

\* from_row_major rejected a flat input longer than the grid.
C17_Witness ==
    /\ last.op = "from_row_major"
    /\ last.res = Err(DimensionMismatch)
    /\ last.args[1] * last.args[2] > 0
    /\ Len(last.args[3]) > last.args[1] * last.args[2]

\* The source can yield n values; the value it yields at position i (from 0).
Yields(source, n) == source.endless \/ Len(source.items) >= n

Pulled(source, i) == source.items[(i % Len(source.items)) + 1]

\* C18: from_iter_row_major pulls at most num_rows * num_columns values
\* from its source, so it returns for an endless source too; when the
\* source yields that many, it succeeds with the i-th pulled value at row
\* major position i and leaves the rest of the source alone; when the
\* source yields fewer, it returns Err(NotEnoughElements).
C18_FromIterRowMajor ==
    last.op = "from_iter_row_major" =>
        LET nr == last.args[1]
            nc == last.args[2]
            source == last.args[3]
        IN  /\ last.count <= nr * nc
            /\ IF Yields(source, nr * nc)
               THEN /\ live
                    /\ last.res = Ok(Unit)
                    /\ num_rows = nr
                    /\ num_columns = nc
                    /\ last.count = nr * nc
                    /\ array = [i \in 1..(nr * nc) |-> Pulled(source, i - 1)]
               ELSE ~live /\ last.res = Err(NotEnoughElements)

\* from_iter_row_major filled a 2 x 2 grid from an endless source.
C18_Witness ==
    /\ live
    /\ last.op = "from_iter_row_major"
    /\ last.args[3].endless
    /\ Len(last.args[3].items) < Len(array)
    /\ num_rows = 2
    /\ num_columns = 2

\* C19: from_iter_column_major pulls at most num_rows * num_columns
\* values and places the i-th pulled value at coordinate
\* (i % num_rows, i / num_rows); when the source yields fewer values it
\* returns Err(NotEnoughElements), never Err(DimensionMismatch).
C19_FromIterColumnMajor ==
    last.op = "from_iter_column_major" =>
        LET nr == last.args[1]
            nc == last.args[2]
            source == last.args[3]
        IN  /\ last.count <= nr * nc
            /\ IF Yields(source, nr * nc)
               THEN /\ live
                    /\ last.res = Ok(Unit)
                    /\ num_rows = nr
                    /\ num_columns = nc
                    /\ Len(array) = nr * nc
                    /\ \A i \in 0..(nr * nc - 1) :
                           At(array, i % nr, i \div nr) = Pulled(source, i)
               ELSE /\ ~live
                    /\ last.res = Err(NotEnoughElements)
                    /\ last.res # Err(DimensionMismatch)

\* from_iter_column_major ran out of values for a grid with elements.
C19_Witness ==
    /\ last.op = "from_iter_column_major"
    /\ last.res = Err(NotEnoughElements)
    /\ ~last.args[3].endless
    /\ Len(last.args[3].items) >= 1
    /\ Len(last.args[3].items) < last.args[1] * last.args[2]

\* C20: filled_by_row_major and filled_by_column_major call the generator
\* exactly num_rows * num_columns times and never fail; the value of call
\* i is at row major position i, coordinate
\* (i / num_columns, i % num_columns), respectively at column major
\* position i, coordinate (i % num_rows, i / num_rows).
C20_FilledBy ==
    last.op \in {"filled_by_row_major", "filled_by_column_major"} =>
        LET nr == last.args[1]
            nc == last.args[2]
            generator == last.args[3]
        IN  /\ live
            /\ last.res = Ok(Unit)
            /\ last.count = nr * nc
            /\ num_rows = nr
            /\ num_columns = nc
            /\ Len(array) = nr * nc
            /\ last.op = "filled_by_row_major" =>
                   \A i \in 0..(nr * nc - 1) :
                       At(array, i \div nc, i % nc) =
                           generator[(i % Len(generator)) + 1]
            /\ last.op = "filled_by_column_major" =>
                   \A i \in 0..(nr * nc - 1) :
                       At(array, i % nr, i \div nr) =
                           generator[(i % Len(generator)) + 1]

\* filled_by_column_major built a 2 x 2 grid whose buffer is not in the
\* order of the calls.
C20_Witness ==
    /\ live
    /\ last.op = "filled_by_column_major"
    /\ last.count = 4
    /\ num_rows = 2
    /\ array # [i \in 1..4 |-> last.args[3][((i - 1) % Len(last.args[3])) + 1]]

\* C21: filled_with(num_rows, num_columns, v) never fails for any
\* dimensions, zero included; the grid reports the given num_rows and
\* num_columns with num_elements = num_rows * num_columns, and every
\* element of the row major and of the column major iteration is v.
C21_FilledWith ==
    last.op = "filled_with" =>
        LET nr == last.args[1]
            nc == last.args[2]
            v == last.args[3]
            by_rows == elements_row_major_iter(self)
            by_columns == elements_column_major_iter(self)
        IN  /\ live
            /\ last.res = Ok(Unit)
            /\ num_rows = nr
            /\ num_columns = nc
            /\ num_elements(self) = nr * nc
            /\ by_rows.tag = "Ok"
            /\ Len(by_rows.val) = nr * nc
            /\ \A k \in 1..Len(by_rows.val) : by_rows.val[k] = v
            /\ by_columns.tag = "Ok"
            /\ Len(by_columns.val) = nr * nc
            /\ \A k \in 1..Len(by_columns.val) : by_columns.val[k] = v

\* filled_with built a grid of one row and two columns.
C21_Witness ==
    /\ live
    /\ last.op = "filled_with"
    /\ num_rows = 1
    /\ num_columns = 2
    /\ array = <<last.args[3], last.args[3]>>

\* C22: degenerate construction keeps the supplied shape: from_rows of
\* zero rows is a 0 x 0 grid; from_rows of N empty rows has num_rows = N,
\* num_columns = 0, row_len = 0 and column_len = N; from_row_major with 0
\* rows, c columns and empty data has num_rows = 0, num_columns = c,
\* row_len = c and column_len = 0.
C22_DegenerateShapes ==
    /\ last.op = "from_rows" /\ last.args[1] = <<>> =>
           live /\ num_rows = 0 /\ num_columns = 0 /\ array = <<>>
    /\ last.op = "from_rows" /\ Len(last.args[1]) >= 1
           /\ (\A i \in 1..Len(last.args[1]) : last.args[1][i] = <<>>) =>
           /\ live
           /\ num_rows = Len(last.args[1])
           /\ num_columns = 0
           /\ row_len(self) = 0
           /\ column_len(self) = Len(last.args[1])
    /\ last.op = "from_row_major" /\ last.args[1] = 0
           /\ last.args[3] = <<>> =>
           /\ live
           /\ num_rows = 0
           /\ num_columns = last.args[2]
           /\ row_len(self) = last.args[2]
           /\ column_len(self) = 0

\* from_rows built a grid from two empty rows.
C22_Witness ==
    /\ live
    /\ last.op = "from_rows"
    /\ last.args[1] = <<<<>>, <<>>>>
    /\ column_len(self) = 2

\* C23: row_iter(r) with r >= num_rows, r = num_rows included, returns
\* Err(IndicesOutOfBounds(r, 0)), and column_iter(c) with c >= num_columns,
\* c = num_columns included, returns Err(IndicesOutOfBounds(0, c)); neither
\* panics.
C23_IterOutOfBounds ==
    /\ last.op = "row_iter" /\ last.args[1] >= num_rows =>
           last.res = Err(IndicesOutOfBounds(last.args[1], 0))
    /\ last.op = "column_iter" /\ last.args[1] >= num_columns =>
           last.res = Err(IndicesOutOfBounds(0, last.args[1]))

\* column_iter was asked for column num_columns of a grid with elements.
C23_Witness ==
    /\ live
    /\ last.op = "column_iter"
    /\ last.args[1] = num_columns
    /\ Len(array) >= 1
    /\ last.res = Err(IndicesOutOfBounds(0, num_columns))

\* C24: two grids compare equal if and only if they have the same
\* num_rows, the same num_columns and identical elements at every
\* coordinate; a grid of N rows and no column and a grid of no row and N
\* columns, both with empty buffers, are not equal.
C24_EqualityIsStructural ==
    last.op = "eq" =>
        LET other == last.args[1]
        IN  last.res =
                (/\ num_rows = other.num_rows
                 /\ num_columns = other.num_columns
                 /\ \A rc \in Coordinates :
                        get(self, rc[1], rc[2]) = get(other, rc[1], rc[2]))

\* A 2 x 0 grid was compared with a 0 x 2 grid and found different.
C24_Witness ==
    /\ live
    /\ last.op = "eq"
    /\ last.res = FALSE
    /\ num_rows = 2
    /\ num_columns = 0
    /\ last.args[1] = Array2D(<<>>, 0, 2)

\* The members of a sequence, and a sequence without a repeated member.
Range(s) == {s[k] : k \in 1..Len(s)}

NoRepeat(s) == \A j \in 1..Len(s), k \in 1..Len(s) : s[j] = s[k] => j = k

\* C25: for every grid, indices_row_major() and indices_column_major()
\* each yield exactly num_rows * num_columns coordinate pairs, none
\* repeated, and both yield the set of all pairs in bounds; in row major
\* order the column varies fastest, in column major order the row does.
C25_IndicesCoverage ==
    /\ last.op \in {"indices_row_major", "indices_column_major"} =>
           /\ last.res.tag = "Ok"
           /\ Len(last.res.val) = num_rows * num_columns
           /\ NoRepeat(last.res.val)
           /\ Range(last.res.val) = Coordinates
           /\ Range(indices_row_major(num_rows, num_columns)) =
                  Range(indices_column_major(num_rows, num_columns))
    /\ last.op = "indices_row_major" =>
           \A k \in 0..(num_rows * num_columns - 1) :
               last.res.val[k + 1] = <<k \div num_columns, k % num_columns>>
    /\ last.op = "indices_column_major" =>
           \A k \in 0..(num_rows * num_columns - 1) :
               last.res.val[k + 1] = <<k % num_rows, k \div num_rows>>

\* indices_column_major was read on a 2 x 2 grid: (1, 0) comes second.
C25_Witness ==
    /\ live
    /\ last.op = "indices_column_major"
    /\ num_rows = 2
    /\ num_columns = 2
    /\ last.res.val[2] = <<1, 0>>

\* C26: for every grid, degenerate ones included,
\* elements_column_major_iter() yields for k = 0 .. num_rows * num_columns
\* - 1 the element get(k % num_rows, k / num_rows),
\* enumerate_column_major() yields that element paired with its
\* coordinate, and the panicking index inside these iterators is never
\* out of bounds.
C26_ColumnMajorIteration ==
    /\ last.op = "elements_column_major_iter" =>
           /\ last.res.tag = "Ok"
           /\ Len(last.res.val) = num_rows * num_columns
           /\ \A k \in 0..(num_rows * num_columns - 1) :
                  Some(last.res.val[k + 1]) =
                      get(self, k % num_rows, k \div num_rows)
    /\ last.op = "enumerate_column_major" =>
           /\ last.res.tag = "Ok"
           /\ Len(last.res.val) = num_rows * num_columns
           /\ \A k \in 0..(num_rows * num_columns - 1) :
                  /\ last.res.val[k + 1][1] = <<k % num_rows, k \div num_rows>>
                  /\ Some(last.res.val[k + 1][2]) =
                         get(self, k % num_rows, k \div num_rows)

\* enumerate_column_major was read on a 2 x 1 grid of two different
\* elements.
C26_Witness ==
    /\ live
    /\ last.op = "enumerate_column_major"
    /\ num_rows = 2
    /\ num_columns = 1
    /\ last.res = Ok(<<<<<<0, 0>>, 1>>, <<<<1, 0>>, 2>>>>)

\* A sequence back to front.
RECURSIVE Reverse(_)
Reverse(s) == IF s = <<>> THEN <<>> ELSE Append(Reverse(Tail(s)), Head(s))

\* The traversal from the back completed and is the forward one reversed.
ReversedOf(backward, forward) ==
    /\ forward.tag = "Ok"
    /\ backward.tag = "Ok"
    /\ backward.val = Reverse(forward.val)

\* C27: for every grid, traversing elements_row_major_iter,
\* elements_column_major_iter, row_iter(r), column_iter(c), rows_iter and
\* columns_iter from the back yields exactly the reverse of the forward
\* sequence; for rows_iter and columns_iter the rows and columns come in
\* reverse order and each inner sequence keeps its forward order.
C27_ReverseTraversal ==
    /\ last.op = "elements_row_major_iter_rev" =>
           ReversedOf(last.res, elements_row_major_iter(self))
    /\ last.op = "elements_column_major_iter_rev" =>
           ReversedOf(last.res, elements_column_major_iter(self))
    /\ last.op = "row_iter_rev" /\ last.args[1] < num_rows =>
           ReversedOf(last.res, row_iter(self, last.args[1]))
    /\ last.op = "column_iter_rev" /\ last.args[1] < num_columns =>
           ReversedOf(last.res, column_iter(self, last.args[1]))
    /\ last.op = "rows_iter_rev" =>
           /\ last.res.tag = "Ok"
           /\ Len(last.res.val) = num_rows
           /\ \A r \in 0..(num_rows - 1) :
                  Ok(last.res.val[num_rows - r]) = row_iter(self, r)
    /\ last.op = "columns_iter_rev" =>
           /\ last.res.tag = "Ok"
           /\ Len(last.res.val) = num_columns
           /\ \A c \in 0..(num_columns - 1) :
                  Ok(last.res.val[num_columns - c]) = column_iter(self, c)

\* The grid before the last call.
before == Array2D(pre, num_rows, num_columns)

\* C28: array[(row, column)] read and written reaches the same element as
\* get and get_mut when row < num_rows and column < num_columns, and
\* panics, instead of returning an error value, whenever row >= num_rows
\* or column >= num_columns (row only, column only, or both), leaving the
\* grid unmodified.
C28_DirectIndexing ==
    /\ live /\ last.op = "index" =>
           /\ array = pre
           /\ IF InBounds(last.args[1], last.args[2])
              THEN /\ last.res.tag = "Some"
                   /\ last.res = get(self, last.args[1], last.args[2])
              ELSE last.res = Panic
    /\ live /\ last.op = "index_mut" =>
           /\ <<num_rows, num_columns>> = ctor_dims
           /\ IF InBounds(last.args[1], last.args[2])
              THEN /\ last.res = Ok(Unit)
                   /\ array = write_through(before,
                                  get_mut(before, last.args[1], last.args[2]),
                                  last.args[3])
                   /\ OnlySlotChanged(last.args[1], last.args[2], last.args[3])
              ELSE last.res = Panic /\ array = pre

\* A write through array[(row, column)] panicked with only the column out
\* of bounds, on a grid with elements.
C28_Witness ==
    /\ live
    /\ last.op = "index_mut"
    /\ last.res = Panic
    /\ last.args[1] < num_rows
    /\ last.args[2] >= num_columns
    /\ Len(array) >= 1

\* The three reads of coordinate (row, column) of grid g all return res.
ThreeReads(g, row, column, res) ==
    /\ get(g, row, column) = res
    /\ get_row_major(g, row * g.num_columns + column) = res
    /\ get_column_major(g, column * g.num_rows + row) = res

\* The coordinate the last successful write addressed.
Target ==
    CASE last.op = "set" -> <<last.args[1], last.args[2]>>
      [] last.op = "set_row_major" ->
             <<last.args[1] \div num_columns, last.args[1] % num_columns>>
      [] last.op = "set_column_major" ->
             <<last.args[1] % num_rows, last.args[1] \div num_rows>>

Written == last.args[Len(last.args)]

\* C29: the three write paths address one store.  On a grid with
\* num_rows > 0 the three reads get(r, c), get_row_major(r * num_columns
\* + c) and get_column_major(c * num_rows + r) always agree, and after a
\* successful set, set_row_major or set_column_major they return the
\* written value at the coordinate the write addressed and, at every other
\* coordinate, what they returned before the call; so after any
\* interleaving each coordinate reads as its most recent write, or as
\* constructed.
C29_SharedStore ==
    live /\ num_rows > 0 =>
        /\ \A rc \in Coordinates :
               /\ get(self, rc[1], rc[2]).tag = "Some"
               /\ ThreeReads(self, rc[1], rc[2], get(self, rc[1], rc[2]))
        /\ last.op \in {"set", "set_row_major", "set_column_major"}
               /\ last.res = Ok(Unit) =>
               \A rc \in Coordinates :
                   ThreeReads(self, rc[1], rc[2],
                              IF rc = Target THEN Some(Written)
                              ELSE get(before, rc[1], rc[2]))

\* set_column_major changed an element off the diagonal of a 2 x 2 grid.
C29_Witness ==
    /\ live
    /\ last.op = "set_column_major"
    /\ last.res = Ok(Unit)
    /\ num_rows = 2
    /\ num_columns = 2
    /\ last.args[1] = 1
    /\ array # pre
    /\ get_row_major(self, 2) = Some(last.args[2])

\* C30: with wrapping machine-word arithmetic for num_rows * num_columns,
\* every constructor that takes explicit dimensions either fails or
\* returns a grid whose buffer length is the true product num_rows x
\* num_columns; none succeeds with dimensions whose product overflowed,
\* so get on a coordinate in bounds of a constructed grid always finds an
\* element.
C30_NoOverflowedGrid ==
    /\ live => Len(array) = num_rows * num_columns
    /\ live /\ last.op = "get" /\ InBounds(last.args[1], last.args[2]) =>
           last.res.tag = "Some"

====
